---- MODULE Spec2Model ----
(***************************************************************************)
(* Model of src/index.js: a folder of images is normalized into a working  *)
(* folder, cut into chunks of IMAGES_PER_FILE images, one intermediate PDF *)
(* is generated per chunk (all chunks in parallel), the intermediate PDFs  *)
(* are merged into the final PDF, and the two working folders are removed. *)
(*                                                                         *)
(* File names are the numbers 1..n; a directory listing enumerates names   *)
(* in ascending order.                                                     *)
(***************************************************************************)
EXTENDS Integers, Sequences, FiniteSets, TLC

\* Largest number of files in the input folder.
MaxFiles == 31

\* Program constants (src/index.js:16-18, 83-90).
MAX_IMAGE_SIZE_MB == 2
IMAGES_PER_FILE == 15
PAGE_WIDTH == 600
PAGE_HEIGHT == 800
IMAGE_MAX_WIDTH == 150
IMAGE_MAX_HEIGHT == 100
MARGIN_X == 25
MARGIN_Y == 25
SPACING_X == 10
SPACING_Y == 10

VARIABLES
  source,            \* inputFolder: name -> file (never written by the program)
  compressed,        \* compressedFolder: name -> content ("none" when absent)
  preexisting,       \* names compressedFolder already held when the run started
  compressedExists,  \* compressedFolder exists
  pdfExists,         \* pdfFolder exists
  pc,                \* position of the main procedure
  alive,             \* the process is running (no uncaught exception so far)
  fileIdx,           \* analyzeAndCompressImages: index of the next file of its loop
  files,             \* createPDFsFromImages: its listing of compressedFolder
  tasks,             \* createPDFsFromImages: the createPDF calls, in push order
  promise,           \* state of the promise of each createPDF call
  stream,            \* state of the output stream of each createPDF call
  docs,              \* pages each createPDF call put into its document
  pdfFiles,          \* pdfFolder: pdfIndex -> intermediate document on disk
  finishOrder,       \* calls in the order their streams finished
  generatedPDFs,     \* value of Promise.all(tasks)
  finalDoc,          \* finalPDF on disk
  finalWrites,       \* number of writes of finalPDF by this run
  failedIn,          \* stage whose exception reached the catch handler
  lay,               \* one createPDF call followed image by image (LayoutSpec)
  img                \* one image and its scaled size (ScaleSpec)

pipelineVars == <<source, compressed, preexisting, compressedExists, pdfExists, pc,
                  alive, fileIdx, files, tasks, promise, stream, docs, pdfFiles,
                  finishOrder, generatedPDFs, finalDoc, finalWrites, failedIn>>

vars == <<pipelineVars, lay, img>>

---------------------------------------------------------------------------
(* Input files *)

\* A size test that sends a file of exactly the threshold to the resizer.
OversizeFromThreshold(size) == size >= MAX_IMAGE_SIZE_MB * 1024 * 1024

\* fileSizeMB > MAX_IMAGE_SIZE_MB, with fileSizeMB = size / (1024 * 1024).
IsOversize(size) == size > MAX_IMAGE_SIZE_MB * 1024 * 1024

Threshold == MAX_IMAGE_SIZE_MB * 1024 * 1024

\* An ordinary image: decodable, under the threshold, every operation on it succeeds.
Regular ==
  [ext |-> "img", decodes |-> TRUE, size |-> 1024, writeOk |-> TRUE, opens |-> TRUE]

\* The files that differ from Regular in one respect:
\*   ext      "other": an extension that is none of .jpg, .jpeg, .png
\*   decodes  FALSE: sharp(inputPath).metadata() throws
\*   size     at the threshold, or above it
\*   writeOk  FALSE: writing the normalized copy (toFile or copyFileSync) throws
\*   opens    FALSE: doc.openImage throws on the normalized copy
Irregular ==
  { [Regular EXCEPT !.ext = "other"],
    [Regular EXCEPT !.decodes = FALSE],
    [Regular EXCEPT !.size = Threshold],
    [Regular EXCEPT !.size = Threshold + 1],
    [Regular EXCEPT !.size = Threshold + 1, !.writeOk = FALSE],
    [Regular EXCEPT !.writeOk = FALSE],
    [Regular EXCEPT !.opens = FALSE] }

\* Input folder of n files of which file s (if s > 0) is the irregular file irr.
SourceFolder(n, s, irr) == [f \in 1..n |-> IF f = s THEN irr ELSE Regular]

\* ['.jpg', '.jpeg', '.png'].includes(path.extname(file).toLowerCase())
HasImageExt(file) == file.ext = "img"

\* A directory listing: the names of a folder in ascending order.
Names(folder) == [k \in 1..Len(folder) |-> k]

\* fs.readdirSync(inputFolder).filter(...)
InputListing == SelectSeq(Names(source), LAMBDA f : HasImageExt(source[f]))

\* fs.readdirSync(compressedFolder).filter(...)
CompressedListing ==
  SelectSeq(Names(compressed),
            LAMBDA f : compressed[f] # "none" /\ HasImageExt(source[f]))

---------------------------------------------------------------------------
(* Normalizer *)

\* validateImage: the metadata, or null when decoding throws.
ImageDecodes(file) == file.decodes

ValidateImage(file) == IF ImageDecodes(file) THEN "metadata" ELSE "null"

\* compressImage: writes the resized copy; an exception is logged and swallowed.
CompressImage(file, old) == IF file.writeOk THEN "resized" ELSE old

\* One iteration of the loop of analyzeAndCompressImages.
NormalizeStep ==
  /\ alive /\ pc = "normalize"
  /\ LET listing == InputListing
         name    == listing[fileIdx]
         file    == source[name]
     IN /\ fileIdx <= Len(listing)
        /\ IF ValidateImage(file) = "null"
           THEN \* continue
                /\ fileIdx' = fileIdx + 1
                /\ UNCHANGED <<compressed, pc, failedIn>>
           ELSE IF IsOversize(file.size)
           THEN /\ compressed' =
                     [compressed EXCEPT ![name] = CompressImage(file, compressed[name])]
                /\ fileIdx' = fileIdx + 1
                /\ UNCHANGED <<pc, failedIn>>
           ELSE IF file.writeOk
           THEN \* fs.copyFileSync
                /\ compressed' = [compressed EXCEPT ![name] = "copy"]
                /\ fileIdx' = fileIdx + 1
                /\ UNCHANGED <<pc, failedIn>>
           ELSE \* fs.copyFileSync throws: the exception reaches the catch of main
                /\ pc' = "failed"
                /\ failedIn' = "normalize"
                /\ UNCHANGED <<compressed, fileIdx>>
  /\ UNCHANGED <<lay, img, source, preexisting, compressedExists, pdfExists, alive, files, tasks,
                 promise, stream, docs, pdfFiles, finishOrder, generatedPDFs,
                 finalDoc, finalWrites>>

NormalizerDone == pc = "normalize" /\ fileIdx > Len(InputListing)

---------------------------------------------------------------------------
(* Page layout of one chunk (the forEach of createPDF) *)

\* doc.openImage(filePath) succeeds on the file of that name in compressedFolder.
Opens(name) == compressed[name] = "stale" \/ source[name].opens

\* A wrap test on the left edge of the next cell alone.
WrapsAtPageEdge(x1) == x1 > PAGE_WIDTH - MARGIN_X

\* x + IMAGE_MAX_WIDTH > PAGE_WIDTH - MARGIN_X, after x += IMAGE_MAX_WIDTH + SPACING_X.
Wraps(x1) == x1 + IMAGE_MAX_WIDTH > PAGE_WIDTH - MARGIN_X

\* A row step without the 20 units kept for the caption.
NextRowNoCaption(y) == y + IMAGE_MAX_HEIGHT + SPACING_Y

\* y += IMAGE_MAX_HEIGHT + SPACING_Y + 20
NextRow(y) == y + IMAGE_MAX_HEIGHT + SPACING_Y + 20

\* What can happen to one image in the try block of the forEach callback:
\*   "ok"          no call throws of its own,
\*   "openFails"   doc.openImage throws (before the page test),
\*   "imageFails"  doc.image throws (after the page test, nothing drawn),
\*   "textFails"   doc.text throws (the image is drawn, the cursor not moved).
Outcomes == {"ok", "openFails", "imageFails", "textFails"}

\* An iteration that moves the cursor whether or not the image was placed.
PlaceImageAdvancing(st, name, index, outcome) ==
  LET paged == IF index % IMAGES_PER_FILE = 0
               THEN [x |-> MARGIN_X, y |-> MARGIN_Y, pages |-> Append(st.pages, <<>>)]
               ELSE st
      n     == Len(paged.pages)
      cell  == [file |-> name, x |-> paged.x, y |-> paged.y]
      x1    == paged.x + IMAGE_MAX_WIDTH + SPACING_X
      wrap  == x1 + IMAGE_MAX_WIDTH > PAGE_WIDTH - MARGIN_X
  IN [x |-> IF wrap THEN MARGIN_X ELSE x1,
      y |-> IF wrap THEN paged.y + IMAGE_MAX_HEIGHT + SPACING_Y + 20 ELSE paged.y,
      pages |-> IF n > 0 /\ outcome \in {"ok", "textFails"}
                THEN [paged.pages EXCEPT ![n] = Append(@, cell)]
                ELSE paged.pages]

\* One iteration of images.forEach: st is [x, y, pages], index is 0-based.
\* Every exception is caught and logged, and the iteration ends where it was
\* thrown.  doc.image has no page to draw on, and throws, when no addPage
\* came before it.
PlaceImage(st, name, index, outcome) ==
  IF outcome = "openFails" THEN st
  ELSE LET paged == IF index % IMAGES_PER_FILE = 0
                    THEN [x |-> MARGIN_X, y |-> MARGIN_Y,
                          pages |-> Append(st.pages, <<>>)]
                    ELSE st
       IN IF Len(paged.pages) = 0 \/ outcome = "imageFails" THEN paged
          ELSE LET n     == Len(paged.pages)
                   cell  == [file |-> name, x |-> paged.x, y |-> paged.y]
                   drawn == [paged.pages EXCEPT ![n] = Append(@, cell)]
                   x1    == paged.x + IMAGE_MAX_WIDTH + SPACING_X
               IN IF outcome = "textFails"
                  THEN [x |-> paged.x, y |-> paged.y, pages |-> drawn]
                  ELSE [x |-> IF Wraps(x1) THEN MARGIN_X ELSE x1,
                        y |-> IF Wraps(x1) THEN NextRow(paged.y) ELSE paged.y,
                        pages |-> drawn]

\* The iteration for an image of the pipeline: only opening it may fail.
LayoutStep(st, name, index) ==
  PlaceImage(st, name, index, IF Opens(name) THEN "ok" ELSE "openFails")

RECURSIVE LayoutLoop(_, _, _)
LayoutLoop(st, images, index) ==
  IF index >= Len(images) THEN st
  ELSE LayoutLoop(LayoutStep(st, images[index + 1], index), images, index + 1)

\* The pages of the document createPDF builds for a chunk.
Layout(images) ==
  LayoutLoop([x |-> MARGIN_X, y |-> MARGIN_Y, pages |-> <<>>], images, 0).pages

---------------------------------------------------------------------------
(* Parallel generation *)

\* A slice that includes its end index.
SliceEndIncluded(s, a, b) ==
  LET hi == IF b + 1 < Len(s) THEN b + 1 ELSE Len(s)
  IN [k \in 1..(IF hi > a THEN hi - a ELSE 0) |-> s[a + k]]

\* Array.prototype.slice(a, b), 0-based, end excluded.
Slice(s, a, b) ==
  LET hi == IF b < Len(s) THEN b ELSE Len(s)
  IN [k \in 1..(IF hi > a THEN hi - a ELSE 0) |-> s[a + k]]

\* A sequence index that two neighbouring chunks share.
PdfIndexOfPair(i) == (i \div (2 * IMAGES_PER_FILE)) + 1

\* Math.floor(i / IMAGES_PER_FILE) + 1: it numbers the chunk and, through
\* outputPDF, names the file the call writes.
PdfIndex(i) == (i \div IMAGES_PER_FILE) + 1

\* The for loop of createPDFsFromImages: the createPDF calls it pushes.
RECURSIVE ChunkLoop(_, _, _)
ChunkLoop(fs, i, acc) ==
  IF i < Len(fs)
  THEN ChunkLoop(fs, i + IMAGES_PER_FILE,
                 Append(acc, [images   |-> Slice(fs, i, i + IMAGES_PER_FILE),
                              pdfIndex |-> PdfIndex(i)]))
  ELSE acc

\* A join that continues with the first resolved promise (Promise.any).
SomeResolved(p) == \E t \in DOMAIN p : p[t] = "resolved"

\* A join that collects the values as the promises complete.
ValuesInCompletionOrder(ts, order) == [k \in DOMAIN order |-> ts[order[k]].pdfIndex]

\* A join that collects the values with the promise completed last in front.
ValuesLastFinishedFirst(ts, order) ==
  [k \in DOMAIN order |-> ts[order[Len(order) + 1 - k]].pdfIndex]

\* Promise.all resolves once every promise is resolved ...
AllResolved(p) == \A t \in DOMAIN p : p[t] = "resolved"

\* ... with the values in the order of the array, whatever the completion order.
PromiseAllValues(ts, order) == [t \in DOMAIN ts |-> ts[t].pdfIndex]

\* Promise.all rejects as soon as one promise is rejected.
AnyRejected(p) == \E t \in DOMAIN p : p[t] = "rejected"

\* createPDFsFromImages up to its await: the listing, the chunk loop and the
\* synchronous part of every createPDF call.  thrown is the set of calls
\* whose try block throws (reject(error)); the others have their stream
\* writing.  A rejection already present settles Promise.all before any
\* stream event.
CreatePDFsFromImages ==
  /\ alive /\ NormalizerDone
  /\ LET fs == CompressedListing
         ts == ChunkLoop(fs, 0, <<>>)
     IN \E thrown \in SUBSET (DOMAIN ts) :
          LET p == [t \in DOMAIN ts |-> IF t \in thrown THEN "rejected" ELSE "pending"]
          IN /\ files' = fs
             /\ tasks' = ts
             /\ promise' = p
             /\ stream' = [t \in DOMAIN ts |->
                             IF t \in thrown THEN "none" ELSE "writing"]
             /\ docs' = [t \in DOMAIN ts |->
                           IF t \in thrown THEN <<>> ELSE Layout(ts[t].images)]
             /\ IF AnyRejected(p)
                THEN /\ pc' = "failed"
                     /\ failedIn' = "generate"
                     /\ UNCHANGED generatedPDFs
                ELSE IF AllResolved(p)
                THEN /\ pc' = "merge"
                     /\ generatedPDFs' = PromiseAllValues(ts, <<>>)
                     /\ UNCHANGED failedIn
                ELSE /\ pc' = "await"
                     /\ UNCHANGED <<generatedPDFs, failedIn>>
  /\ UNCHANGED <<lay, img, source, compressed, preexisting, compressedExists, pdfExists, alive, fileIdx,
                 pdfFiles, finishOrder, finalDoc, finalWrites>>

\* outputStream emits 'finish': the document is on disk and the promise is
\* resolved with its path; the await of Promise.all continues when it was
\* the last one.
StreamFinish(t) ==
  /\ alive /\ t \in DOMAIN stream /\ stream[t] = "writing"
  /\ stream' = [stream EXCEPT ![t] = "finished"]
  /\ pdfFiles' = [pdfFiles EXCEPT ![tasks[t].pdfIndex] =
                    [written |-> TRUE, pages |-> docs[t]]]
  /\ promise' = [promise EXCEPT ![t] = "resolved"]
  /\ finishOrder' = Append(finishOrder, t)
  /\ IF pc = "await" /\ AllResolved(promise')
     THEN /\ pc' = "merge"
          /\ generatedPDFs' = PromiseAllValues(tasks, finishOrder')
     ELSE UNCHANGED <<pc, generatedPDFs>>
  /\ UNCHANGED <<lay, img, source, compressed, preexisting, compressedExists, pdfExists, alive, fileIdx,
                 files, tasks, docs, finalDoc, finalWrites, failedIn>>

\* outputStream emits 'error' (the file cannot be created or flushed): no
\* listener is registered, so the promise is neither resolved nor rejected
\* and the unhandled 'error' event ends the process.
StreamError(t) ==
  /\ alive /\ t \in DOMAIN stream /\ stream[t] = "writing"
  /\ stream' = [stream EXCEPT ![t] = "error"]
  /\ alive' = FALSE
  /\ UNCHANGED <<lay, img, source, compressed, preexisting, compressedExists, pdfExists, pc, fileIdx,
                 files, tasks, promise, docs, pdfFiles, finishOrder,
                 generatedPDFs, finalDoc, finalWrites, failedIn>>

---------------------------------------------------------------------------
(* Merge *)

\* fs.readFileSync(pdfPath) and PDFDocument.load succeed on every path.
Readable(paths, disk) ==
  \A k \in DOMAIN paths : paths[k] \in DOMAIN disk /\ disk[paths[k]].written

\* The for loop of mergePDFs: the pages of every document, appended in turn.
RECURSIVE MergePages(_, _, _)
MergePages(paths, disk, merged) ==
  IF paths = <<>> THEN merged
  ELSE MergePages(Tail(paths), disk, merged \o disk[Head(paths)].pages)

\* A main that cleans up whatever mergePDFs did (cleanup in a finally block).
CleanupAlways(ok) == "cleanup"

\* Where main continues after mergePDFs returned (ok) or threw.
AfterMerge(ok) == IF ok THEN "cleanup" ELSE "failed"

MergePDFs ==
  /\ alive /\ pc = "merge"
  /\ \E outcome \in {"ok", "loadFails", "saveFails"} :
       LET ok == outcome = "ok" /\ Readable(generatedPDFs, pdfFiles)
       IN /\ outcome = "loadFails" => generatedPDFs # <<>>
          /\ pc' = AfterMerge(ok)
          /\ IF ok
             THEN /\ finalDoc' = [written |-> TRUE,
                                  pages |-> MergePages(generatedPDFs, pdfFiles, <<>>)]
                  /\ finalWrites' = finalWrites + 1
                  /\ UNCHANGED failedIn
             ELSE /\ failedIn' = "merge"
                  /\ UNCHANGED <<finalDoc, finalWrites>>
  /\ UNCHANGED <<lay, img, source, compressed, preexisting, compressedExists, pdfExists, alive, fileIdx,
                 files, tasks, promise, stream, docs, pdfFiles, finishOrder,
                 generatedPDFs>>

---------------------------------------------------------------------------
(* Cleanup *)

Range(s) == {s[k] : k \in DOMAIN s}

\* A cleanup that also deletes the folder the images came from.
CleanupTargetsAndInput == <<"compressed", "pdf", "input">>

\* The folders main hands to deleteFolder, in call order: compressedFolder
\* and pdfFolder, not inputFolder ("input") and not the path of finalPDF
\* ("final").
CleanupTargets == <<"compressed", "pdf">>

\* A folder after deleteFolder: none of its files is left.
DeleteFiles(folder) == [f \in DOMAIN folder |-> [folder[f] EXCEPT !.ext = "deleted"]]

\* deleteFolder(compressedFolder); deleteFolder(pdfFolder); then the success
\* report.  A deleteFolder that throws leaves its folder and goes to the catch.
Cleanup ==
  /\ alive /\ pc = "cleanup"
  /\ \E outcome \in {"ok", "firstFails", "secondFails"} :
       LET deleted == IF outcome = "firstFails" THEN {}
                      ELSE IF outcome = "secondFails" THEN {CleanupTargets[1]}
                      ELSE Range(CleanupTargets)
       IN /\ IF "compressed" \in deleted
             THEN /\ compressed' = [f \in DOMAIN compressed |-> "none"]
                  /\ compressedExists' = FALSE
             ELSE UNCHANGED <<compressed, compressedExists>>
          /\ IF "pdf" \in deleted
             THEN /\ pdfFiles' = [i \in DOMAIN pdfFiles |->
                                    [written |-> FALSE, pages |-> <<>>]]
                  /\ pdfExists' = FALSE
             ELSE UNCHANGED <<pdfFiles, pdfExists>>
          /\ source' = IF "input" \in deleted THEN DeleteFiles(source) ELSE source
          /\ finalDoc' = IF "final" \in deleted
                         THEN [written |-> FALSE, pages |-> <<>>] ELSE finalDoc
          /\ IF outcome = "ok"
             THEN pc' = "succeeded" /\ UNCHANGED failedIn
             ELSE pc' = "failed" /\ failedIn' = "cleanup"
  /\ UNCHANGED <<lay, img, preexisting, alive, fileIdx, files, tasks, promise,
                 stream, docs, finishOrder, generatedPDFs, finalWrites>>

---------------------------------------------------------------------------
(* Specification *)

\* Values of lay and img while the pipeline runs.
LayIdle == [phase |-> "idle"]
ImgIdle == [phase |-> "idle"]

\* Number of chunks of a folder of n files.
MaxChunks == (MaxFiles + IMAGES_PER_FILE - 1) \div IMAGES_PER_FILE

\* The state when main starts: the input folder holds up to MaxFiles files,
\* at most one of them irregular; both working folders exist (created at
\* lines 21-22 unless already there), and compressedFolder may still hold a
\* file of the irregular file's name left by an earlier run of the same day.
Init ==
  /\ \E n \in 0..MaxFiles, s \in 0..MaxFiles, irr \in Irregular, stale \in BOOLEAN :
       /\ s <= n
       /\ s = 0 => (irr = [Regular EXCEPT !.decodes = FALSE] /\ ~stale)
       /\ source = SourceFolder(n, s, irr)
       /\ compressed = [f \in 1..n |-> IF stale /\ f = s THEN "stale" ELSE "none"]
       /\ preexisting = IF stale THEN {s} ELSE {}
  /\ compressedExists = TRUE
  /\ pdfExists = TRUE
  /\ pc = "normalize"
  /\ alive = TRUE
  /\ fileIdx = 1
  /\ files = <<>>
  /\ tasks = <<>>
  /\ promise = <<>>
  /\ stream = <<>>
  /\ docs = <<>>
  /\ pdfFiles = [i \in 1..MaxChunks |-> [written |-> FALSE, pages |-> <<>>]]
  /\ finishOrder = <<>>
  /\ generatedPDFs = <<>>
  /\ finalDoc = [written |-> FALSE, pages |-> <<>>]
  /\ finalWrites = 0
  /\ failedIn = "none"
  /\ lay = LayIdle
  /\ img = ImgIdle

Next ==
  \/ NormalizeStep
  \/ CreatePDFsFromImages
  \/ \E t \in 1..MaxChunks : StreamFinish(t)
  \/ \E t \in 1..MaxChunks : StreamError(t)
  \/ MergePDFs
  \/ Cleanup

Spec == Init /\ [][Next]_vars

---------------------------------------------------------------------------
(* One createPDF call, followed image by image *)

\* The pipeline at rest while a single call is followed.
PipelineIdle ==
  /\ source = <<>>
  /\ compressed = <<>>
  /\ preexisting = {}
  /\ compressedExists = TRUE
  /\ pdfExists = TRUE
  /\ pc = "normalize"
  /\ alive = TRUE
  /\ fileIdx = 1
  /\ files = <<>>
  /\ tasks = <<>>
  /\ promise = <<>>
  /\ stream = <<>>
  /\ docs = <<>>
  /\ pdfFiles = [i \in 1..MaxChunks |-> [written |-> FALSE, pages |-> <<>>]]
  /\ finishOrder = <<>>
  /\ generatedPDFs = <<>>
  /\ finalDoc = [written |-> FALSE, pages |-> <<>>]
  /\ finalWrites = 0
  /\ failedIn = "none"

\* Each page cut down to the cell drawn last on it: the iteration reads
\* only the number of pages and the cursor.
LastCells(pages) ==
  [p \in DOMAIN pages |->
     IF pages[p] = <<>> THEN <<>> ELSE <<pages[p][Len(pages[p])]>>]

\* Cells on the current page.
CellsOnPage(pages) == IF pages = <<>> THEN 0 ELSE Len(pages[Len(pages)])

\* createPDF is called with a chunk of 1 to IMAGES_PER_FILE images (the
\* slices of createPDFsFromImages); the cursor starts at the margins and
\* the document has no page (autoFirstPage: false).
LayoutInit ==
  /\ PipelineIdle
  /\ img = ImgIdle
  /\ \E n \in 1..IMAGES_PER_FILE :
       lay = [phase |-> "placing", n |-> n, index |-> 0,
              st |-> [x |-> MARGIN_X, y |-> MARGIN_Y, pages |-> <<>>],
              placed |-> 0, outcome |-> "none", emitted |-> FALSE,
              cell |-> [file |-> 0, x |-> 0, y |-> 0]]

\* The forEach callback for the image at lay.index, with any outcome of its
\* calls.  placed counts the iterations that ran to their end; emitted and
\* cell record the image this iteration drew, if it drew one.
PlaceNext ==
  /\ lay.phase = "placing"
  /\ lay.index < lay.n
  /\ \E outcome \in Outcomes :
       LET r       == PlaceImage(lay.st, lay.index + 1, lay.index, outcome)
           before  == IF Len(r.pages) = Len(lay.st.pages)
                      THEN CellsOnPage(lay.st.pages) ELSE 0
           emitted == CellsOnPage(r.pages) > before
           ran     == outcome = "ok" /\ Len(r.pages) > 0
       IN lay' = [lay EXCEPT
                    !.index   = @ + 1,
                    !.st      = [r EXCEPT !.pages = LastCells(r.pages)],
                    !.placed  = IF ran THEN @ + 1 ELSE @,
                    !.outcome = outcome,
                    !.emitted = emitted,
                    !.cell    = IF emitted
                                THEN r.pages[Len(r.pages)][CellsOnPage(r.pages)]
                                ELSE @]
  /\ UNCHANGED <<pipelineVars, img>>

\* doc.end() after the last image.
EndDocument ==
  /\ lay.phase = "placing"
  /\ lay.index = lay.n
  /\ lay' = [lay EXCEPT !.phase = "ended"]
  /\ UNCHANGED <<pipelineVars, img>>

LayoutNext ==
  \/ PlaceNext
  \/ EndDocument

LayoutSpec == LayoutInit /\ [][LayoutNext]_vars

---------------------------------------------------------------------------
(* The scale of one image, in the arithmetic of JavaScript numbers *)

\* A JavaScript number is an IEEE 754 double: a positive one is held here as
\* [m, e] for the value m * 2^e, m an integer of 53 binary digits.  Every
\* operation rounds its exact result to the nearest double, a tie to the
\* one with an even m.
Precision == 53

\* Integers beyond the machine word are sequences of digits in base 2^15,
\* most significant first, without leading zero.
DigitBits == 15

Base == 2^DigitBits

\* Number of binary digits of a natural number below Base * Base.
BitLength(n) ==
  IF n = 0 THEN 0
  ELSE CHOOSE k \in 1..(2 * DigitBits) : 2^(k - 1) <= n /\ n \div 2^(k - 1) < 2

\* A natural number below Base * Base as digits.
NatDigits(n) ==
  IF n = 0 THEN <<>>
  ELSE IF n < Base THEN <<n>>
  ELSE <<n \div Base, n % Base>>

RECURSIVE Strip(_)
Strip(digits) ==
  IF digits # <<>> /\ digits[1] = 0 THEN Strip(Tail(digits)) ELSE digits

BigBitLength(digits) ==
  IF digits = <<>> THEN 0
  ELSE DigitBits * (Len(digits) - 1) + BitLength(digits[1])

\* digits[1..i] * n + carry, for n below Base.
RECURSIVE BigTimes(_, _, _, _)
BigTimes(digits, i, n, carry) ==
  IF i = 0 THEN NatDigits(carry)
  ELSE LET t == digits[i] * n + carry
       IN Append(BigTimes(digits, i - 1, n, t \div Base), t % Base)

\* digits[1..i] divided by b, for b up to Base: quotient digits and remainder.
RECURSIVE BigDivide(_, _, _)
BigDivide(digits, i, b) ==
  IF i = 0 THEN [q |-> <<>>, r |-> 0]
  ELSE LET p   == BigDivide(digits, i - 1, b)
           cur == p.r * Base + digits[i]
       IN [q |-> Append(p.q, cur \div b), r |-> cur % b]

\* digits + 1
RECURSIVE BigIncrement(_)
BigIncrement(digits) ==
  IF digits = <<>> THEN <<1>>
  ELSE LET n == Len(digits)
       IN IF digits[n] < Base - 1 THEN [digits EXCEPT ![n] = @ + 1]
          ELSE Append(BigIncrement(SubSeq(digits, 1, n - 1)), 0)

\* digits * 2^k
RECURSIVE ShiftLeft(_, _)
ShiftLeft(digits, k) ==
  IF k = 0 THEN digits
  ELSE IF k >= DigitBits THEN ShiftLeft(Append(digits, 0), k - DigitBits)
  ELSE BigTimes(digits, Len(digits), 2^k, 0)

Odd(digits) == digits[Len(digits)] % 2 = 1

\* The double for the quotient q of binary exponent e, after the decision
\* to round up or not: m has 53 binary digits again.
Rounded(q, e, up) ==
  LET m == IF up THEN BigIncrement(q) ELSE q
  IN IF BigBitLength(m) > Precision
     THEN [m |-> Strip(BigDivide(m, Len(m), 2).q), e |-> e + 1]
     ELSE [m |-> m, e |-> e]

\* The double nearest to digits * 2^e: round to nearest, ties to even.  At
\* most DigitBits binary digits are cut off (a double times an integer below
\* Base).
RoundToDouble(digits, e) ==
  LET n == BigBitLength(digits)
  IN IF n <= Precision
     THEN [m |-> ShiftLeft(digits, Precision - n), e |-> e - (Precision - n)]
     ELSE LET s    == n - Precision
              d    == BigDivide(digits, Len(digits), 2^s)
              q    == Strip(d.q)
              half == 2^(s - 1)
          IN Rounded(q, e + s, d.r > half \/ (d.r = half /\ Odd(q)))

\* An integer below Base * Base as a double (exact).
FromInteger(n) == RoundToDouble(NatDigits(n), 0)

\* a / b for two positive integers below Base: the quotient of a * 2^k by
\* b, k chosen for a quotient of 53 binary digits, rounded by the remainder.
Divide(a, b) ==
  LET la    == BitLength(a)
      lb    == BitLength(b)
      below == IF la <= lb THEN a * 2^(lb - la) < b ELSE a < b * 2^(la - lb)
      k     == Precision + lb - la - (IF below THEN 0 ELSE 1)
      num   == ShiftLeft(NatDigits(a), k)
      d     == BigDivide(num, Len(num), b)
      q     == Strip(d.q)
  IN Rounded(q, 0 - k, 2 * d.r > b \/ (2 * d.r = b /\ Odd(q)))

\* n * x for a positive integer n below Base and a double x.
Times(n, x) == RoundToDouble(BigTimes(x.m, Len(x.m), n, 0), x.e)

\* a < b for two digit sequences of one length.
DigitsLess(a, b) ==
  \E i \in DOMAIN a : a[i] < b[i] /\ \A j \in 1..(i - 1) : a[j] = b[j]

\* x < y
Less(x, y) == x.e < y.e \/ (x.e = y.e /\ DigitsLess(x.m, y.m))

\* A scale that fills the cell in the larger of the two ratios.
LargerRatio(w, h) ==
  LET byWidth  == Divide(IMAGE_MAX_WIDTH, w)
      byHeight == Divide(IMAGE_MAX_HEIGHT, h)
  IN IF Less(byWidth, byHeight) THEN byHeight ELSE byWidth

\* Math.min(IMAGE_MAX_WIDTH / img.width, IMAGE_MAX_HEIGHT / img.height)
Scale(w, h) ==
  LET byWidth  == Divide(IMAGE_MAX_WIDTH, w)
      byHeight == Divide(IMAGE_MAX_HEIGHT, h)
  IN IF Less(byHeight, byWidth) THEN byHeight ELSE byWidth

\* Largest width and height of the images tried, next to 2000 and 3000.
MaxDim == 75

Dimensions == (1..MaxDim) \cup {2000, 3000}

\* doc.openImage has returned an image of some width and height.
ScaleInit ==
  /\ PipelineIdle
  /\ lay = LayIdle
  /\ \E w \in Dimensions, h \in Dimensions :
       img = [phase |-> "opened", width |-> w, height |-> h]

\* const scale = Math.min(...)
ComputeScale ==
  /\ img.phase = "opened"
  /\ img' = [phase |-> "scale", width |-> img.width, height |-> img.height,
             scale |-> Scale(img.width, img.height)]
  /\ UNCHANGED <<pipelineVars, lay>>

\* scaledWidth and scaledHeight, as handed to doc.image.
ComputeScaledSize ==
  /\ img.phase = "scale"
  /\ img' = [phase |-> "scaled", width |-> img.width, height |-> img.height,
             scale |-> img.scale,
             scaledWidth  |-> Times(img.width, img.scale),
             scaledHeight |-> Times(img.height, img.scale)]
  /\ UNCHANGED <<pipelineVars, lay>>

ScaleNext ==
  \/ ComputeScale
  \/ ComputeScaledSize

ScaleSpec == ScaleInit /\ [][ScaleNext]_vars

---------------------------------------------------------------------------
(* Properties *)

\* The task that was given sequence index i.
TaskOfIndex(i) == CHOOSE t \in DOMAIN tasks : tasks[t].pdfIndex = i

\* Pages of the intermediate documents 1..k, in ascending sequence index.
RECURSIVE PagesUpTo(_)
PagesUpTo(k) == IF k = 0 THEN <<>> ELSE PagesUpTo(k - 1) \o docs[TaskOfIndex(k)]

RECURSIVE PageCountUpTo(_)
PageCountUpTo(k) ==
  IF k = 0 THEN 0 ELSE PageCountUpTo(k - 1) + Len(docs[TaskOfIndex(k)])

\* C1: the final document written by mergePDFs holds the pages of the
\* intermediate documents in ascending sequence index, each document's pages
\* in their own order, and as many pages as the intermediate documents hold
\* together, whatever the order in which the createPDF tasks completed.
C1_MergeInSequenceOrder ==
  finalDoc.written =>
    /\ {tasks[t].pdfIndex : t \in DOMAIN tasks} = 1..Len(tasks)
    /\ finalDoc.pages = PagesUpTo(Len(tasks))
    /\ Len(finalDoc.pages) = PageCountUpTo(Len(tasks))

\* C1 witness: a final document of several pages whose tasks completed in an
\* order other than their sequence order.
C1_Witness ==
  /\ finalDoc.written
  /\ Len(finalDoc.pages) >= 2
  /\ Len(finishOrder) >= 2
  /\ finishOrder[1] > finishOrder[2]

\* Concatenation of the chunks of the first k tasks.
RECURSIVE ImagesUpTo(_)
ImagesUpTo(k) == IF k = 0 THEN <<>> ELSE ImagesUpTo(k - 1) \o tasks[k].images

Generated == pc # "normalize"

\* C2: the chunk loop makes ceil(N / IMAGES_PER_FILE) chunks numbered
\* 1..ceil(N / IMAGES_PER_FILE); every chunk but the last holds exactly
\* IMAGES_PER_FILE images, the last between 1 and IMAGES_PER_FILE; the chunks
\* concatenated in sequence order are the listing, nothing twice or missing.
C2_Chunking ==
  Generated =>
    /\ Len(tasks) = (Len(files) + IMAGES_PER_FILE - 1) \div IMAGES_PER_FILE
    /\ \A t \in DOMAIN tasks :
         /\ tasks[t].pdfIndex = t
         /\ t < Len(tasks) => Len(tasks[t].images) = IMAGES_PER_FILE
         /\ Len(tasks[t].images) >= 1
         /\ Len(tasks[t].images) <= IMAGES_PER_FILE
    /\ ImagesUpTo(Len(tasks)) = files
    /\ Cardinality(Range(ImagesUpTo(Len(tasks)))) = Len(files)

\* C2 witness: several chunks, the last one shorter than the others.
C2_Witness ==
  /\ Generated
  /\ Len(tasks) >= 2
  /\ Len(tasks[Len(tasks)].images) < IMAGES_PER_FILE

MergeBegun == pc \in {"merge", "cleanup", "succeeded"} \/ failedIn \in {"merge", "cleanup"}

\* C3: once mergePDFs has begun every createPDF call has returned its path,
\* and a call returns its path only after its stream finished flushing the
\* document to the folder.
C3_MergeAfterAllFlushed ==
  /\ MergeBegun => \A t \in DOMAIN tasks : promise[t] = "resolved"
  /\ \A t \in DOMAIN tasks :
       promise[t] = "resolved" =>
         /\ stream[t] = "finished"
         /\ pc \in {"await", "merge"} => pdfFiles[tasks[t].pdfIndex].written

\* C3 witness: mergePDFs is about to run on several documents.
C3_Witness == pc = "merge" /\ Len(tasks) >= 2

\* C4: createPDFsFromImages settles, and main moves on, only when no started
\* createPDF call is still writing, also when a call failed.
C4_WaitsForEveryTask ==
  pc \in {"merge", "cleanup", "succeeded", "failed"} =>
    \A t \in DOMAIN tasks : stream[t] # "writing"

\* Every file this run has normalized so far is in compressedFolder.
NormalizedSoFarPresent ==
  LET listing == InputListing
  IN \A k \in 1..(fileIdx - 1) :
       (source[listing[k]].decodes /\ source[listing[k]].writeOk) =>
          compressed[listing[k]] \in {"copy", "resized"}

\* Every document a task has flushed is in pdfFolder.
FlushedDocsPresent ==
  \A t \in DOMAIN tasks :
    stream[t] = "finished" =>
      /\ pdfFiles[tasks[t].pdfIndex].written
      /\ pdfFiles[tasks[t].pdfIndex].pages = docs[t]

\* C5: a working folder is deleted only after mergePDFs wrote the final
\* document; when normalization, generation or merge failed both folders
\* remain, with everything the run wrote into them.
C5_CleanupOnlyAfterMerge ==
  /\ (~compressedExists \/ ~pdfExists) =>
       finalDoc.written /\ failedIn \notin {"normalize", "generate", "merge"}
  /\ failedIn \in {"normalize", "generate", "merge"} =>
       /\ compressedExists /\ pdfExists
       /\ NormalizedSoFarPresent
       /\ FlushedDocsPresent

\* C5 witness: the merge failed with normalized images and documents on disk.
C5_Witness ==
  /\ failedIn = "merge"
  /\ \E f \in DOMAIN compressed : compressed[f] = "copy"
  /\ \E i \in DOMAIN pdfFiles : pdfFiles[i].written

\* C6: when the catch handler of main is reached the final document has not
\* been written; it is written at most once, and only by runs that succeed.
C6_NoFinalDocumentOnFailure ==
  /\ finalWrites <= 1
  /\ pc = "failed" => (finalWrites = 0 /\ ~finalDoc.written)

\* C7: when the stream of an intermediate document cannot be created or
\* flushed, the promise of that createPDF call is rejected and the run is in
\* the failed state, before merge and without cleanup.
C7_WriteErrorFailsRun ==
  \A t \in DOMAIN tasks :
    stream[t] = "error" =>
      /\ promise[t] = "rejected"
      /\ pc = "failed"
      /\ ~finalDoc.written
      /\ compressedExists /\ pdfExists

\* C8: a run that can take no further step has reached its success report
\* or its catch handler.
C8_EndsSucceededOrFailed == pc \in {"succeeded", "failed"} \/ ENABLED Next

Undecodable(f) == HasImageExt(source[f]) /\ ~source[f].decodes

InSomeChunk(f) == \E t \in DOMAIN tasks : f \in Range(tasks[t].images)

\* The run skipped f without writing a file for it and without failing, and
\* normalized every other image.
SkippedOnly(f) ==
  /\ compressed[f] \notin {"copy", "resized"}
  /\ failedIn # "normalize"
  /\ (pc = "normalize" \/ compressedExists) => NormalizedSoFarPresent
  /\ pc # "normalize" => fileIdx > Len(InputListing)

\* C9: an undecodable image gets no file from this run, is in no chunk, and
\* does not keep the other images from being normalized.
C9_UndecodableInNoChunk ==
  \A f \in DOMAIN source :
    Undecodable(f) => (SkippedOnly(f) /\ ~InSomeChunk(f))

\* C10: when the normalizer has finished, compressedFolder holds a normalized
\* image under the name of every source image that decoded.
C10_OneNormalizedPerValidImage ==
  (fileIdx > Len(InputListing) /\ pc \in {"normalize", "await", "merge", "cleanup"}) =>
    \A f \in DOMAIN source :
      (HasImageExt(source[f]) /\ source[f].decodes) => compressed[f] # "none"

\* C11: the normalizer branches on the byte size alone: a valid image of at
\* most 2 MB (2 * 1024 * 1024 bytes, the boundary included) is copied
\* unchanged, a larger one goes to the resizer and is never copied unchanged.
C11_BranchOnSizeAlone ==
  compressedExists =>
    LET listing == InputListing
    IN \A k \in 1..Len(listing) :
         LET f == listing[k]
         IN (k < fileIdx /\ ValidateImage(source[f]) = "metadata") =>
              /\ source[f].size <= 2 * 1024 * 1024 => compressed[f] = "copy"
              /\ source[f].size > 2 * 1024 * 1024 =>
                   compressed[f] = IF source[f].writeOk THEN "resized"
                                   ELSE IF f \in preexisting THEN "stale" ELSE "none"

\* An image of exactly 2 MB was copied, behind smaller images.
C11_Witness ==
  /\ compressedExists
  /\ \E f \in DOMAIN source :
       f > 1 /\ source[f].size = 2 * 1024 * 1024 /\ compressed[f] = "copy"

\* The images a run started on clean working areas hands to the generator,
\* read off the source folder: image files that decode, the large ones only
\* when the resizer could write them.
ExpectedImages ==
  SelectSeq(Names(source),
            LAMBDA f : /\ HasImageExt(source[f])
                       /\ source[f].decodes
                       /\ (source[f].size > 2 * 1024 * 1024 => source[f].writeOk))

\* The cell of number k of the grid, k counted from 0, three cells a row.
SlotX(k) == 25 + 160 * (k % 3)
SlotY(k) == 25 + 130 * (k \div 3)

\* The pages of the document of chunk c, read off the source folder: one
\* page with the images that open, in listing order, cell after cell; no
\* page when the first image of the chunk does not open.
ExpectedDocument(c) ==
  LET all    == ExpectedImages
      lo     == 15 * (c - 1) + 1
      hi     == IF 15 * c < Len(all) THEN 15 * c ELSE Len(all)
      images == SubSeq(all, lo, hi)
      opened == SelectSeq(images, LAMBDA f : source[f].opens)
  IN IF ~source[images[1]].opens THEN <<>>
     ELSE << [k \in 1..Len(opened) |->
                [file |-> opened[k], x |-> SlotX(k - 1), y |-> SlotY(k - 1)]] >>

RECURSIVE ExpectedFinal(_)
ExpectedFinal(c) ==
  IF c = 0 THEN <<>> ELSE ExpectedFinal(c - 1) \o ExpectedDocument(c)

\* C12: a run that starts with clean working areas and writes the final
\* document writes the pages and placements fixed by the source folder
\* alone, whatever the order in which the createPDF calls completed: two
\* runs on the same folder give the same document.
C12_FinalDocumentFixedBySource ==
  (finalDoc.written /\ preexisting = {}) =>
    finalDoc.pages = ExpectedFinal((Len(ExpectedImages) + 14) \div 15)

\* Three documents merged after the third call completed first and the
\* first one last.
C12_Witness ==
  /\ finalDoc.written
  /\ preexisting = {}
  /\ finishOrder = <<3, 2, 1>>
  /\ Len(finalDoc.pages) = 3

\* The createPDF calls that write the intermediate file of index i.
WritersOf(i) == {t \in DOMAIN tasks : tasks[t].pdfIndex = i}

\* C18: the createPDF calls write pairwise distinct files, one per sequence
\* index; a file on disk holds the document of its one writer, and when
\* mergePDFs is about to read a file its writer has finished: no file is
\* read while it is written.
C18_OneWriterPerFile ==
  /\ \A t, u \in DOMAIN tasks : t # u => tasks[t].pdfIndex # tasks[u].pdfIndex
  /\ pdfExists =>
       \A i \in DOMAIN pdfFiles :
         pdfFiles[i].written =>
           \E t \in DOMAIN tasks :
             /\ WritersOf(i) = {t}
             /\ stream[t] = "finished"
             /\ pdfFiles[i].pages = docs[t]
  /\ (alive /\ pc = "merge") =>
       \A k \in DOMAIN generatedPDFs :
         \A t \in WritersOf(generatedPDFs[k]) : stream[t] # "writing"

\* Three calls wrote at the same time, and mergePDFs is about to read their
\* files.
C18_Witness ==
  /\ alive /\ pc = "merge"
  /\ Len(generatedPDFs) = 3
  /\ finishOrder = <<2, 3, 1>>
  /\ \A i \in 1..3 : pdfFiles[i].written /\ pdfFiles[i].pages # <<>>

\* C19: no step of a run, successful or failed, changes the source folder
\* or its files, and cleanup deletes the two working folders only: the
\* final document, once written, stays as it was written.
C19_SourceAndFinalKept ==
  [][/\ source' = source
     /\ (finalDoc.written => finalDoc' = finalDoc)
     /\ (pc = "cleanup" =>
           /\ pc' = "succeeded" => (~compressedExists' /\ ~pdfExists')
           /\ finalDoc' = finalDoc)]_vars

\* A run over two chunks ended with both working folders deleted, the
\* final document written.
C19_Witness ==
  /\ pc = "succeeded"
  /\ ~compressedExists /\ ~pdfExists
  /\ Len(tasks) = 2
  /\ finalDoc.written
  /\ Len(finalDoc.pages) = 2

---------------------------------------------------------------------------
(* Properties of one createPDF call (LayoutSpec) *)

InLayout == lay.phase \in {"placing", "ended"}

\* C13: a failure of one image skips that image alone: every image whose
\* own calls would succeed is drawn, whatever happened to the others,
\* the image at index 0 included.
C13_FailureIsolated ==
  (InLayout /\ lay.outcome = "ok") =>
    (lay.emitted /\ lay.cell.file = lay.index)

\* C14 as stated: a failed placement moves the cursor on as if the image
\* had been placed, so that on a page the cursor stands past every image
\* handled so far, placed or skipped.
C14_CursorAdvancesOnFailure ==
  (InLayout /\ Len(lay.st.pages) > 0) =>
    (lay.st.x = SlotX(lay.index) /\ lay.st.y = SlotY(lay.index))

\* C14, amended: a failed placement leaves the cursor where it was: the
\* cursor stands past the images that were placed without failure only, and
\* the next image drawn takes the cell of the one that failed.
C14_CursorStaysOnFailure ==
  InLayout =>
    /\ lay.st.x = SlotX(lay.placed)
    /\ lay.st.y = SlotY(lay.placed)
    /\ lay.emitted =>
         LET k == IF lay.outcome = "ok" THEN lay.placed - 1 ELSE lay.placed
         IN lay.cell.x = SlotX(k) /\ lay.cell.y = SlotY(k)

\* The third image is drawn in the second cell after the second one failed.
C14_Witness ==
  /\ InLayout
  /\ lay.emitted
  /\ lay.outcome = "ok"
  /\ lay.cell.file = 3
  /\ lay.placed = 2
  /\ lay.cell.x = 185

\* C15: the document of a chunk has a page when it is ended, for every
\* pattern of failures.
C15_DocumentHasAPage ==
  (InLayout /\ lay.phase = "ended") => Len(lay.st.pages) >= 1

\* C16: in a chunk without failure the image at index i is drawn at
\* x = 25 + 160 * (i mod 3), y = 25 + 130 * (i div 3).
C16_GridPositions ==
  (InLayout /\ lay.emitted /\ lay.placed = lay.index) =>
    LET i == lay.cell.file - 1
    IN /\ i = lay.index - 1
       /\ lay.cell.x = 25 + 160 * (i % 3)
       /\ lay.cell.y = 25 + 130 * (i \div 3)

\* A full chunk placed without failure: the last image in the last cell.
C16_Witness ==
  /\ InLayout
  /\ lay.n = IMAGES_PER_FILE
  /\ lay.placed = IMAGES_PER_FILE
  /\ lay.emitted
  /\ lay.cell = [file |-> 15, x |-> 345, y |-> 545]

\* C20: every cell drawn lies inside the margins of the page, caption
\* included, for every pattern of failures.
C20_CellsInsideMargins ==
  (InLayout /\ lay.emitted) =>
    /\ lay.cell.x >= 25
    /\ lay.cell.x + 150 <= 575
    /\ lay.cell.y >= 25
    /\ lay.cell.y + 100 + 20 <= 775

\* A cell at the right end of a row, drawn in a chunk where placements failed.
C20_Witness ==
  /\ InLayout
  /\ lay.emitted
  /\ lay.placed < lay.index
  /\ lay.cell.x + 150 = 495
  /\ lay.cell.y > 25

---------------------------------------------------------------------------
(* Properties of the scale of one image (ScaleSpec) *)

Scaled == img.phase = "scaled"

LessEq(x, y) == ~Less(y, x)

\* The next double above x.
NextUp(x) == Rounded(x.m, x.e, TRUE)

\* x and y are at most k doubles apart.
RECURSIVE WithinUlps(_, _, _)
WithinUlps(x, y, k) ==
  \/ x = y
  \/ k > 0 /\ IF Less(x, y) THEN WithinUlps(NextUp(x), y, k - 1)
                              ELSE WithinUlps(x, NextUp(y), k - 1)

\* C17 as stated: the scaled width is at most 150 and the scaled height at
\* most 100, one of them equal to its bound, and
\* scaledWidth * h = scaledHeight * w.
C17_FitsExactly ==
  Scaled =>
    /\ LessEq(img.scaledWidth, FromInteger(150))
    /\ LessEq(img.scaledHeight, FromInteger(100))
    /\ img.scaledWidth = FromInteger(150) \/ img.scaledHeight = FromInteger(100)
    /\ Times(img.height, img.scaledWidth) = Times(img.width, img.scaledHeight)

\* C17, amended: the bounds, the equality and the aspect ratio hold up to
\* the rounding of the numbers: each scaled side is at most one double
\* above its bound, one of them is at most one double away from its bound,
\* the two cross products are at most 4 doubles apart, and an image of
\* 3000 x 2000 is scaled to exactly 150 x 100.
C17_FitsUpToRounding ==
  Scaled =>
    /\ LessEq(img.scaledWidth, NextUp(FromInteger(150)))
    /\ LessEq(img.scaledHeight, NextUp(FromInteger(100)))
    /\ \/ WithinUlps(img.scaledWidth, FromInteger(150), 1)
       \/ WithinUlps(img.scaledHeight, FromInteger(100), 1)
    /\ WithinUlps(Times(img.height, img.scaledWidth),
                  Times(img.width, img.scaledHeight), 4)
    /\ (img.width = 3000 /\ img.height = 2000) =>
         /\ img.scaledWidth = FromInteger(150)
         /\ img.scaledHeight = FromInteger(100)

\* An image 73 wide is scaled to the double next above 150.
C17_Witness ==
  /\ Scaled
  /\ img.width = 73
  /\ img.height = 1
  /\ img.scaledWidth = NextUp(FromInteger(150))

====
